---- MODULE Spec2Model ----
(***************************************************************************)
(* The signaling relay of screenz (package signaling): the two registries, *)
(* the Streamer and Viewer sessions, their goroutines, their cancellation  *)
(* scopes and the cleanup functions attached to them.                      *)
(*                                                                         *)
(* A session object is identified by its index (the Go pointer); a viewer  *)
(* index is at the same time the viewer's uuid.  Unbuffered channels are   *)
(* rendezvous: a sender blocked in `ch <- m` is a one-element sequence     *)
(* <<m>> held by the sender until a receiver takes it.                     *)
(*                                                                         *)
(* The websocket library is outside the repository.  Its contract as used  *)
(* here: a Read or Write returns an error when the context passed to it is *)
(* done, when the connection has suffered a transport failure, or when the *)
(* connection has been closed locally; otherwise it succeeds.              *)
(***************************************************************************)
EXTENDS Naturals, Sequences, FiniteSets, TLC

\* ------------------------------------------------------------------ bounds
\* Frames read from all connections together in one run.
MaxMsgs == 2

\* The session objects a run can create (a Streamer is named by its pointer,
\* a Viewer by its uuid), and the budgets of the relay scenario: connections
\* accepted, frames read (in all, from streamers, from viewers), connections
\* that suffer a transport failure, viewer deadlines that expire.
StreamerPtrs == {1, 2}
ViewerIDs == {1, 2}
RelayScenario ==
    [streamers |-> 1, viewers |-> 2, msgs |-> MaxMsgs,
     fromStreamers |-> MaxMsgs, fromViewers |-> MaxMsgs, failures |-> 3,
     deadlines |-> 2]

\* The scenarios of the runs checked under fair scheduling: frames come from
\* the streamer only and go to two viewers, or come from one viewer only.
OutboundScenario ==
    [streamers |-> 1, viewers |-> 2, msgs |-> MaxMsgs,
     fromStreamers |-> MaxMsgs, fromViewers |-> 0, failures |-> 1,
     deadlines |-> 1]
InboundScenario ==
    [streamers |-> 1, viewers |-> 1, msgs |-> MaxMsgs,
     fromStreamers |-> 0, fromViewers |-> MaxMsgs, failures |-> 2,
     deadlines |-> 1]
LiveScenarios == {OutboundScenario, InboundScenario}

\* The scenario of the runs in which time passes: one viewer that may send
\* and receive before its deadline expires.
DeadlineScenario ==
    [streamers |-> 1, viewers |-> 1, msgs |-> MaxMsgs,
     fromStreamers |-> 1, fromViewers |-> 1, failures |-> 1,
     deadlines |-> 1]

\* The scenario with two streamers, whose codes may be equal.
CollisionScenario ==
    [streamers |-> 2, viewers |-> 1, msgs |-> 2,
     fromStreamers |-> 1, fromViewers |-> 1, failures |-> 1,
     deadlines |-> 1]

\* ------------------------------------------------------- program constants
\* Two of the strings generateStreamerCode can return.  The codes are
\* interchangeable, so the k-th streamer accepted draws among the first k.
CodeList == <<"AAAAA", "ZZZZ9">>
Codes == {CodeList[i] : i \in 1..Len(CodeList)}
generateStreamerCode(k) == {CodeList[i] : i \in {j \in 1..Len(CodeList) : j <= k}}

NotDone == "not done"
errClientSignalTimeout == "the client has exceeded its signaling time limit"
errCloseError == "websocket.CloseError"
errIO == "transport error"
errCanceled == "context canceled"
errNetClosed == "use of closed network connection"

\* What a Read or Write returns on a connection whose peer is gone: the
\* peer's close frame, or some other transport error.
NetFailures == {errCloseError, errIO}

\* uuid.UUID.String and uuid.Parse; "" and "not-a-uuid" do not parse.
uuidString(id) == ToString(id)
uuidValid(str) == \E id \in ViewerIDs : uuidString(id) = str
uuidParse(str) == CHOOSE id \in ViewerIDs : uuidString(id) = str

\* The strings a streamer may put in the `to` field of a frame.
Targets == {uuidString(id) : id \in ViewerIDs} \cup {"not-a-uuid"}

\* The zero value of StreamerMessage.
ZeroStreamerMessage == [To |-> "", Data |-> <<>>]
StreamerMessage(to, data) == [To |-> to, Data |-> data]
ViewerMessage(from, data) == [From |-> from, Data |-> data]
CodeMessage(code) == [code |-> code]

\* The k-th frame the peer of a connection sends: an opaque payload, tagged
\* with its origin so that every payload in the system is distinct.
\* A streamer's payload also carries the `to` it was sent with.
StreamerFrame(s, k, to) == <<"S", s, k, to>>
ViewerFrame(v, k) == <<"V", v, k, "">>

\* websocket.StatusNormalClosure, and the argument of a conn.Close call.
StatusNormalClosure == 1000
Close(code, reason) == [code |-> code, reason |-> reason]

\* --------------------------------------------------------------- registries
MapSet(m, k, v) == [x \in DOMAIN m \cup {k} |-> IF x = k THEN v ELSE m[x]]
MapDelete(m, k) == [x \in DOMAIN m \ {k} |-> m[x]]
EmptyMap == [x \in {} |-> 0]

\* ------------------------------------------------------ cancellation scopes
\* A variant of Cancel in which the last cause wins.
CancelLastWins(ctx, err) == err

\* context.CancelCauseFunc: the first cause wins.
Cancel(ctx, err) == IF ctx = NotDone THEN err ELSE ctx

\* ------------------------------------------------------------- connections
NewConn(net) == [net |-> net, closed |-> <<>>, sent |-> <<>>, recvN |-> 0]

\* The errors a Read or Write on `conn` under context `ctx` can return; the
\* operation succeeds iff the set is empty.
OpErrors(ctx, conn) ==
    (IF conn.net # "up" THEN NetFailures ELSE {})
    \cup (IF ctx # NotDone THEN {errCanceled} ELSE {})
    \cup (IF conn.closed # <<>> THEN {errNetClosed} ELSE {})

\* SR, VR: the Entries of the two registries.  streamers, viewers: the
\* session objects with their goroutines.  scenario: the bounds of the run
\* (never changes).  Mu: the RWMutex of each registry.  tasks: the position
\* of each goroutine of the lock-level view (see "registry locks" below).
VARIABLES SR, VR, streamers, viewers, scenario, Mu, tasks
vars == <<SR, VR, streamers, viewers, scenario, Mu, tasks>>

NoStreamer ==
    [state |-> "none", Code |-> "", Conn |-> NewConn("up"), Ctx |-> NotDone,
     Out |-> <<>>,
     handleIn |-> [pc |-> "select", in |-> <<>>],
     handleOut |-> [pc |-> "select", viewer |-> 0, data |-> <<>>],
     afterFunc |-> "none", log |-> <<>>]

NoViewer ==
    [state |-> "none", code |-> "", Streamer |-> 0, Conn |-> NewConn("up"),
     Ctx |-> NotDone, readWS |-> "none", In |-> <<>>,
     afterFunc |-> "none", log |-> <<>>]

\* =========================================================== registry locks
\* The actions above take a registry access as one step.  The lock-level view
\* below follows every goroutine that touches a registry statement by
\* statement: each is the sequence of its operations on the mutexes, the
\* maps, the sockets, the channels and the log, in source order.  (readWS and
\* handleIn never touch a registry and are not part of it.)
Registries == {"SR", "VR"}

Op(o, r, l) == [op |-> o, reg |-> r, line |-> l]

\* HandleStreamerWS, lines 84-134.
HandleStreamerWSOps ==
    << Op("Accept", "", 85), Op("Write", "", 94), Op("AfterFunc", "", 96),
       Op("Lock", "SR", 125), Op("Insert", "SR", 126),
       Op("Go", "", 128), Op("Go", "", 129), Op("Go", "", 130),
       Op("Log", "", 132), Op("Unlock", "SR", 133) >>

\* The cleanup registered at line 96.
StreamerAfterFuncOps ==
    << Op("Close", "", 97), Op("Lock", "SR", 99), Op("Delete", "SR", 100),
       Op("Unlock", "SR", 101) >>

\* A variant of HandleViewerWSOps that keeps the read lock of SR until the
\* viewer is inserted.
HandleViewerWSOpsNested ==
    << Op("Accept", "", 146), Op("RLock", "SR", 152), Op("Lookup", "SR", 153),
       Op("AfterFunc", "", 166),
       Op("Lock", "VR", 199), Op("Insert", "VR", 200), Op("Go", "", 202),
       Op("Log", "", 204), Op("Unlock", "VR", 205), Op("RUnlock", "SR", 154) >>

\* HandleViewerWS for a code that is registered, lines 142-206.
HandleViewerWSOps ==
    << Op("Accept", "", 146), Op("RLock", "SR", 152), Op("Lookup", "SR", 153),
       Op("RUnlock", "SR", 154), Op("AfterFunc", "", 166),
       Op("Lock", "VR", 199), Op("Insert", "VR", 200), Op("Go", "", 202),
       Op("Log", "", 204), Op("Unlock", "VR", 205) >>

\* HandleViewerWS for a code that is not registered, lines 142-159.
HandleViewerWSMissOps ==
    << Op("Accept", "", 146), Op("RLock", "SR", 152), Op("Lookup", "SR", 153),
       Op("RUnlock", "SR", 154), Op("Close", "", 157) >>

\* The cleanup registered at line 166.
ViewerAfterFuncOps ==
    << Op("Close", "", 167), Op("Lock", "VR", 169), Op("Delete", "VR", 170),
       Op("Unlock", "VR", 171) >>

HandleOutOpsNoLock ==
    << Op("Recv", "", 216), Op("Lookup", "VR", 224), Op("Write", "", 232) >>

\* One turn of handleOut's loop for a registered target, lines 212-237.
HandleOutOps ==
    << Op("Recv", "", 216), Op("RLock", "VR", 223), Op("Lookup", "VR", 224),
       Op("RUnlock", "VR", 225), Op("Write", "", 232) >>

TaskIDs ==
    {"HandleStreamerWS", "StreamerAfterFunc", "handleOut",
     "HandleViewerWS", "HandleViewerWSMiss", "ViewerAfterFunc"}

Program(t) ==
    CASE t = "HandleStreamerWS"   -> HandleStreamerWSOps
      [] t = "StreamerAfterFunc"  -> StreamerAfterFuncOps
      [] t = "handleOut"          -> HandleOutOps
      [] t = "HandleViewerWS"     -> HandleViewerWSOps
      [] t = "HandleViewerWSMiss" -> HandleViewerWSMissOps
      [] t = "ViewerAfterFunc"    -> ViewerAfterFuncOps

\* Where a goroutine comes from: the cleanups are registered at lines 96 and
\* 166, handleOut is started at line 130; the handlers are started by the
\* HTTP server at any time.
StartedAt(t) ==
    CASE t = "StreamerAfterFunc" -> [task |-> "HandleStreamerWS", line |-> 96]
      [] t = "handleOut"         -> [task |-> "HandleStreamerWS", line |-> 130]
      [] t = "ViewerAfterFunc"   -> [task |-> "HandleViewerWS", line |-> 166]
      [] OTHER                   -> [task |-> "", line |-> 0]

\* sync.RWMutex: one writer or any number of readers.
Unlocked == [r \in Registries |-> [writer |-> "", readers |-> {}]]

\* pc: the next operation of the goroutine; acc: inside a map access.
NoTasks == [t \in TaskIDs |-> [pc |-> 1, acc |-> FALSE]]

Init ==
    /\ scenario = RelayScenario
    /\ SR = EmptyMap
    /\ VR = EmptyMap
    /\ streamers = [s \in StreamerPtrs |-> NoStreamer]
    /\ viewers = [v \in ViewerIDs |-> NoViewer]
    /\ Mu = Unlocked
    /\ tasks = NoTasks

\* Frames read so far from the connections of the sessions f[x], x \in S.
RECURSIVE FramesOf(_, _)
FramesOf(f, S) ==
    IF S = {} THEN 0
    ELSE LET x == CHOOSE y \in S : TRUE
         IN f[x].Conn.recvN + FramesOf(f, S \ {x})

\* Frames read so far from all connections (the model's message budget).
FramesRead == FramesOf(streamers, StreamerPtrs) + FramesOf(viewers, ViewerIDs)

\* Connections that have suffered a transport failure so far.
ConnsFailed ==
    Cardinality({s \in StreamerPtrs : streamers[s].Conn.net # "up"})
    + Cardinality({v \in ViewerIDs : viewers[v].Conn.net # "up"})

\* Viewer deadlines that have expired so far.
DeadlinesExpired ==
    Cardinality({v \in ViewerIDs : viewers[v].Ctx = errClientSignalTimeout})

\* Connections accepted so far.
StreamersAccepted == Cardinality({s \in StreamerPtrs : streamers[s].state # "none"})
ViewersAccepted == Cardinality({v \in ViewerIDs : viewers[v].state # "none"})

\* ------------------------------------------------- Signaler.HandleStreamerWS
\* A variant of HandleStreamerWSAccept that does not write the code message.
HandleStreamerWSAcceptNoCode(s, code, net) ==
    /\ streamers[s].state = "none"
    /\ StreamersAccepted < scenario.streamers
    /\ net # "up" => ConnsFailed < scenario.failures
    /\ \A t \in StreamerPtrs : t < s => streamers[t].state # "none"
    /\ streamers' = [streamers EXCEPT
          ![s].state = "accepted",
          ![s].Code = code,
          ![s].Conn = NewConn(net)]
    /\ UNCHANGED <<SR, VR, viewers, scenario, Mu, tasks>>

\* Lines 85-94: accept the connection, generate the code, create the scope
\* and write the code message (its error is ignored: the peer may be gone).
HandleStreamerWSAccept(s, code, net) ==
    /\ streamers[s].state = "none"
    /\ StreamersAccepted < scenario.streamers
    /\ net # "up" => ConnsFailed < scenario.failures
    /\ \A t \in StreamerPtrs : t < s => streamers[t].state # "none"
    /\ streamers' = [streamers EXCEPT
          ![s].state = "accepted",
          ![s].Code = code,
          ![s].Conn = [NewConn(net) EXCEPT
                         !.sent = IF net = "up" THEN <<CodeMessage(code)>> ELSE <<>>]]
    /\ UNCHANGED <<SR, VR, viewers, scenario, Mu, tasks>>

\* A variant of HandleStreamerWSRegister that hands the viewers of the session
\* it finds under the code over to the new session.
HandleStreamerWSRegisterAdopts(s) ==
    /\ streamers[s].state = "accepted"
    /\ SR' = MapSet(SR, streamers[s].Code, s)
    /\ streamers' = [streamers EXCEPT ![s].state = "running",
                                      ![s].afterFunc = "armed"]
    /\ viewers' = [v \in ViewerIDs |->
          IF viewers[v].Streamer # 0 /\ viewers[v].code = streamers[s].Code
            THEN [viewers[v] EXCEPT !.Streamer = s]
            ELSE viewers[v]]
    /\ UNCHANGED <<VR, scenario, Mu, tasks>>

\* A variant of HandleStreamerWSRegister that cancels the session it finds
\* under the code before it takes the entry over.
HandleStreamerWSRegisterEvicts(s) ==
    /\ streamers[s].state = "accepted"
    /\ SR' = MapSet(SR, streamers[s].Code, s)
    /\ streamers' = [t \in StreamerPtrs |->
          IF t = s
            THEN [streamers[t] EXCEPT !.state = "running", !.afterFunc = "armed"]
          ELSE IF streamers[s].Code \in DOMAIN SR /\ SR[streamers[s].Code] = t
            THEN [streamers[t] EXCEPT !.Ctx = Cancel(@, errCanceled)]
          ELSE streamers[t]]
    /\ UNCHANGED <<VR, viewers, scenario, Mu, tasks>>

\* Lines 96-133: register the two cleanup functions, build the Streamer,
\* insert it under its code and start readWS, handleIn and handleOut.
HandleStreamerWSRegister(s) ==
    /\ streamers[s].state = "accepted"
    /\ SR' = MapSet(SR, streamers[s].Code, s)
    /\ streamers' = [streamers EXCEPT ![s].state = "running",
                                      ![s].afterFunc = "armed"]
    /\ UNCHANGED <<VR, viewers, scenario, Mu, tasks>>

\* --------------------------------------------------- Signaler.HandleViewerWS
\* A variant of HandleViewerWSMiss without the return: the handler closes the
\* connection and goes on to build the session, with the nil streamer.
HandleViewerWSMissNoReturn(v, code) ==
    viewers' = [viewers EXCEPT
       ![v].state = "found",
       ![v].code = code,
       ![v].Conn.closed = Append(@, Close(StatusNormalClosure, "NO_STREAMER"))]

\* Lines 156-159: the code is not registered.
HandleViewerWSMiss(v, code) ==
    viewers' = [viewers EXCEPT
       ![v].state = "rejected",
       ![v].code = code,
       ![v].Conn.closed = Append(@, Close(StatusNormalClosure, "NO_STREAMER"))]

\* Lines 143-159: generate the id, accept, look the code up; a miss closes
\* the connection with NO_STREAMER and the handler returns.
HandleViewerWSLookup(v, code) ==
    /\ viewers[v].state = "none"
    /\ ViewersAccepted < scenario.viewers
    /\ \A w \in ViewerIDs : w < v => viewers[w].state # "none"
    /\ IF code \in DOMAIN SR
         THEN viewers' = [viewers EXCEPT ![v].state = "found",
                                         ![v].code = code,
                                         ![v].Streamer = SR[code]]
         ELSE HandleViewerWSMiss(v, code)
    /\ UNCHANGED <<SR, VR, streamers, scenario, Mu, tasks>>

\* Lines 161-189: create the scope, whose deadline runs from here, and
\* register the two cleanup functions.
HandleViewerWSScope(v) ==
    /\ viewers[v].state = "found"
    /\ viewers' = [viewers EXCEPT ![v].state = "scoped",
                                  ![v].afterFunc = "armed"]
    /\ UNCHANGED <<SR, VR, streamers, scenario, Mu, tasks>>

\* A variant of HandleViewerWSRegister whose insert replaces the map.
HandleViewerWSRegisterReplacesMap(v) ==
    /\ viewers[v].state = "scoped"
    /\ VR' = MapSet(EmptyMap, v, v)
    /\ viewers' = [viewers EXCEPT ![v].state = "running",
                                  ![v].readWS = "read"]
    /\ UNCHANGED <<SR, streamers, scenario, Mu, tasks>>

\* A variant of HandleViewerWSRegister that may insert the session again.
HandleViewerWSRegisterAgain(v) ==
    /\ viewers[v].state \in {"scoped", "running"}
    /\ VR' = MapSet(VR, v, v)
    /\ viewers' = [viewers EXCEPT
          ![v].state = "running",
          ![v].readWS = IF viewers[v].state = "scoped" THEN "read" ELSE @]
    /\ UNCHANGED <<SR, streamers, scenario, Mu, tasks>>

\* Lines 191-205: build the Viewer, insert it under its id (exclusive lock)
\* and start readWS.
HandleViewerWSRegister(v) ==
    /\ viewers[v].state = "scoped"
    /\ VR' = MapSet(VR, v, v)
    /\ viewers' = [viewers EXCEPT ![v].state = "running",
                                  ![v].readWS = "read"]
    /\ UNCHANGED <<SR, streamers, scenario, Mu, tasks>>

\* A variant of ViewerDeadline whose timer is stopped by the first frame
\* read from or written to the viewer's connection.
ViewerDeadlineStoppedByActivity(v) ==
    /\ viewers[v].state \in {"scoped", "running"}
    /\ viewers[v].Ctx = NotDone
    /\ viewers[v].Conn.recvN = 0
    /\ viewers[v].Conn.sent = <<>>
    /\ DeadlinesExpired < scenario.deadlines
    /\ viewers' = [viewers EXCEPT ![v].Ctx = Cancel(@, errClientSignalTimeout)]
    /\ UNCHANGED <<SR, VR, streamers, scenario, Mu, tasks>>

\* The deadline of context.WithTimeoutCause (line 161) expires.
ViewerDeadline(v) ==
    /\ viewers[v].state \in {"scoped", "running"}
    /\ viewers[v].Ctx = NotDone
    /\ DeadlinesExpired < scenario.deadlines
    /\ viewers' = [viewers EXCEPT ![v].Ctx = Cancel(@, errClientSignalTimeout)]
    /\ UNCHANGED <<SR, VR, streamers, scenario, Mu, tasks>>

\* ----------------------------------------------------------- Streamer.readWS
\* A variant of StreamerReadWS for an Out made with room for one message:
\* the push completes into the queue and readWS reads on.
StreamerReadWSBuffered(s) ==
    /\ streamers[s].state = "running"
    /\ Len(streamers[s].Out) < 2
    /\ LET errs == OpErrors(streamers[s].Ctx, streamers[s].Conn) IN
       IF errs = {}
         THEN /\ FramesRead < scenario.msgs
              /\ FramesOf(streamers, StreamerPtrs) < scenario.fromStreamers
              /\ \E to \in Targets :
                   streamers' = [streamers EXCEPT
                      ![s].Conn.recvN = @ + 1,
                      ![s].Out = Append(@, StreamerMessage(to, StreamerFrame(s, streamers[s].Conn.recvN + 1, to)))]
         ELSE /\ streamers[s].Out = <<>>
              /\ \E err \in errs :
                   streamers' = [streamers EXCEPT
                      ![s].Ctx = Cancel(@, err),
                      ![s].Out = <<ZeroStreamerMessage>>]
    /\ UNCHANGED <<SR, VR, viewers, scenario, Mu, tasks>>

\* A variant of StreamerReadWS that, like the viewer's readWS, stops at an
\* error: it cancels the scope and pushes nothing.
StreamerReadWSReturns(s) ==
    /\ streamers[s].state = "running"
    /\ streamers[s].Out = <<>>
    /\ LET errs == OpErrors(streamers[s].Ctx, streamers[s].Conn) IN
       IF errs = {}
         THEN /\ FramesRead < scenario.msgs
              /\ FramesOf(streamers, StreamerPtrs) < scenario.fromStreamers
              /\ \E to \in Targets :
                   streamers' = [streamers EXCEPT
                      ![s].Conn.recvN = @ + 1,
                      ![s].Out = <<StreamerMessage(to, StreamerFrame(s, streamers[s].Conn.recvN + 1, to))>>]
         ELSE \E err \in errs :
                   streamers' = [streamers EXCEPT ![s].Ctx = Cancel(@, err)]
    /\ UNCHANGED <<SR, VR, viewers, scenario, Mu, tasks>>

\* One iteration up to the push: read a frame, cancel the scope on an error,
\* and in both cases go on to `s.Out <- out`.
StreamerReadWS(s) ==
    /\ streamers[s].state = "running"
    /\ streamers[s].Out = <<>>
    /\ LET errs == OpErrors(streamers[s].Ctx, streamers[s].Conn) IN
       IF errs = {}
         THEN /\ FramesRead < scenario.msgs
              /\ FramesOf(streamers, StreamerPtrs) < scenario.fromStreamers
              /\ \E to \in Targets :
                   streamers' = [streamers EXCEPT
                      ![s].Conn.recvN = @ + 1,
                      ![s].Out = <<StreamerMessage(to, StreamerFrame(s, streamers[s].Conn.recvN + 1, to))>>]
         ELSE \E err \in errs :
                   streamers' = [streamers EXCEPT
                      ![s].Ctx = Cancel(@, err),
                      ![s].Out = <<ZeroStreamerMessage>>]
    /\ UNCHANGED <<SR, VR, viewers, scenario, Mu, tasks>>

\* --------------------------------------------------------- Streamer.handleOut
\* case <-s.Ctx.Done(): return
HandleOutDone(s) ==
    /\ streamers[s].state = "running"
    /\ streamers[s].handleOut.pc = "select"
    /\ streamers[s].Ctx # NotDone
    /\ streamers' = [streamers EXCEPT ![s].handleOut.pc = "return"]
    /\ UNCHANGED <<SR, VR, viewers, scenario, Mu, tasks>>

\* A variant of HandleOutDrop that returns instead of continuing.
HandleOutDropReturns(s) ==
    streamers' = [streamers EXCEPT ![s].Out = <<>>, ![s].handleOut.pc = "return"]

\* Lines 218-221 and 227-230: log and continue.
HandleOutDrop(s) ==
    streamers' = [streamers EXCEPT ![s].Out = <<>>]

\* case out := <-s.Out: parse the target, look it up; a target that does not
\* parse or is not registered drops the message (continue).
HandleOutRecv(s) ==
    /\ streamers[s].state = "running"
    /\ streamers[s].handleOut.pc = "select"
    /\ streamers[s].Out # <<>>
    /\ LET out == streamers[s].Out[1] IN
       IF uuidValid(out.To) /\ uuidParse(out.To) \in DOMAIN VR
         THEN streamers' = [streamers EXCEPT
                 ![s].Out = <<>>,
                 ![s].handleOut = [pc |-> "write",
                                   viewer |-> VR[uuidParse(out.To)],
                                   data |-> out.Data]]
         ELSE HandleOutDrop(s)
    /\ UNCHANGED <<SR, VR, viewers, scenario, Mu, tasks>>

\* A variant of HandleOutWriteError that cancels the streamer's own scope.
HandleOutWriteErrorCancelsStreamer(s, v, err) ==
    /\ viewers' = viewers
    /\ streamers' = [streamers EXCEPT
          ![s].Ctx = Cancel(@, err),
          ![s].handleOut = [pc |-> "select", viewer |-> 0, data |-> <<>>]]

\* A variant of HandleOutWriteError after which handleOut returns.
HandleOutWriteErrorReturns(s, v, err) ==
    /\ viewers' = [viewers EXCEPT ![v].Ctx = Cancel(@, err)]
    /\ streamers' = [streamers EXCEPT
          ![s].handleOut = [pc |-> "return", viewer |-> 0, data |-> <<>>]]

\* Line 234: what handleOut does with the error of a failed write.
HandleOutWriteError(s, v, err) ==
    /\ viewers' = [viewers EXCEPT ![v].Ctx = Cancel(@, err)]
    /\ streamers' = [streamers EXCEPT
          ![s].handleOut = [pc |-> "select", viewer |-> 0, data |-> <<>>]]

\* A variant of HandleOutWriteOk that writes to the streamer's connection.
HandleOutWriteOkToStreamer(s, v) ==
    /\ viewers' = viewers
    /\ streamers' = [streamers EXCEPT
          ![s].Conn.sent = Append(@, streamers[s].handleOut.data),
          ![s].handleOut = [pc |-> "select", viewer |-> 0, data |-> <<>>]]

\* A variant of HandleOutWriteOk whose frame overtakes the frames written
\* before it.
HandleOutWriteOkOvertakes(s, v) ==
    /\ viewers' = [viewers EXCEPT
          ![v].Conn.sent = <<streamers[s].handleOut.data>> \o @]
    /\ streamers' = [streamers EXCEPT
          ![s].handleOut = [pc |-> "select", viewer |-> 0, data |-> <<>>]]

\* A variant of HandleOutWriteOk that writes out.Data twice.
HandleOutWriteOkTwice(s, v) ==
    /\ viewers' = [viewers EXCEPT
          ![v].Conn.sent = Append(Append(@, streamers[s].handleOut.data),
                                  streamers[s].handleOut.data)]
    /\ streamers' = [streamers EXCEPT
          ![s].handleOut = [pc |-> "select", viewer |-> 0, data |-> <<>>]]

\* Line 232, the write succeeds: out.Data is on viewer v's connection.
HandleOutWriteOk(s, v) ==
    /\ viewers' = [viewers EXCEPT
          ![v].Conn.sent = Append(@, streamers[s].handleOut.data)]
    /\ streamers' = [streamers EXCEPT
          ![s].handleOut = [pc |-> "select", viewer |-> 0, data |-> <<>>]]

\* A variant of HandleOutWriteErrors that writes under the viewer's context.
HandleOutWriteErrorsViewerCtx(s, v) == OpErrors(viewers[v].Ctx, viewers[v].Conn)

\* Line 232: the write is made under the streamer's context on the viewer's
\* connection.
HandleOutWriteErrors(s, v) == OpErrors(streamers[s].Ctx, viewers[v].Conn)

\* Lines 232-235: wsjson.Write(s.Ctx, viewer.Conn, out.Data), then back to
\* the select.
HandleOutWrite(s) ==
    /\ streamers[s].handleOut.pc = "write"
    /\ LET v == streamers[s].handleOut.viewer
           errs == HandleOutWriteErrors(s, v) IN
       IF errs = {}
         THEN HandleOutWriteOk(s, v)
         ELSE \E err \in errs : HandleOutWriteError(s, v, err)
    /\ UNCHANGED <<SR, VR, scenario, Mu, tasks>>

\* ---------------------------------------------------------- Streamer.handleIn
\* case <-s.Ctx.Done(): return
HandleInDone(s) ==
    /\ streamers[s].state = "running"
    /\ streamers[s].handleIn.pc = "select"
    /\ streamers[s].Ctx # NotDone
    /\ streamers' = [streamers EXCEPT ![s].handleIn.pc = "return"]
    /\ UNCHANGED <<SR, VR, viewers, scenario, Mu, tasks>>

\* case in := <-s.In: the rendezvous with a viewer blocked in
\* `v.Streamer.In <- message`, which then goes on to its next read.
HandleInRecv(s, v) ==
    /\ streamers[s].state = "running"
    /\ streamers[s].handleIn.pc = "select"
    /\ viewers[v].Streamer = s
    /\ viewers[v].readWS = "push"
    /\ streamers' = [streamers EXCEPT
          ![s].handleIn = [pc |-> "write", in |-> viewers[v].In]]
    /\ viewers' = [viewers EXCEPT ![v].In = <<>>, ![v].readWS = "read"]
    /\ UNCHANGED <<SR, VR, scenario, Mu, tasks>>

\* A variant of HandleInWriteOk that returns instead of continuing.
HandleInWriteOkReturns(s) ==
    streamers' = [streamers EXCEPT
       ![s].Conn.sent = Append(@, streamers[s].handleIn.in[1]),
       ![s].handleIn = [pc |-> "return", in |-> <<>>]]

\* Lines 249-253, the write succeeds: the message is on the streamer's
\* connection; continue.
HandleInWriteOk(s) ==
    streamers' = [streamers EXCEPT
       ![s].Conn.sent = Append(@, streamers[s].handleIn.in[1]),
       ![s].handleIn = [pc |-> "select", in |-> <<>>]]

\* A variant of HandleInWrite whose failed write also cancels the scope of
\* the viewer that sent the message.
HandleInWriteCancelsSender(s) ==
    /\ streamers[s].handleIn.pc = "write"
    /\ LET errs == OpErrors(streamers[s].Ctx, streamers[s].Conn) IN
       IF errs = {}
         THEN HandleInWriteOk(s) /\ UNCHANGED viewers
         ELSE \E err \in errs :
                /\ streamers' = [streamers EXCEPT
                      ![s].Ctx = Cancel(@, err),
                      ![s].handleIn = [pc |-> "select", in |-> <<>>]]
                /\ viewers' = [viewers EXCEPT
                      ![uuidParse(streamers[s].handleIn.in[1].From)].Ctx =
                          Cancel(@, err)]
    /\ UNCHANGED <<SR, VR, scenario, Mu, tasks>>

\* Lines 249-254: wsjson.Write(s.Ctx, s.Conn, in); an error cancels the
\* streamer's scope; then back to the select.
HandleInWrite(s) ==
    /\ streamers[s].handleIn.pc = "write"
    /\ LET errs == OpErrors(streamers[s].Ctx, streamers[s].Conn) IN
       IF errs = {}
         THEN HandleInWriteOk(s)
         ELSE \E err \in errs :
                streamers' = [streamers EXCEPT
                   ![s].Ctx = Cancel(@, err),
                   ![s].handleIn = [pc |-> "select", in |-> <<>>]]
    /\ UNCHANGED <<SR, VR, viewers, scenario, Mu, tasks>>

\* ------------------------------------------------------------- Viewer.readWS
\* A variant of ViewerWrap that fills From with the streamer's code.
ViewerWrapCode(v, msg) == ViewerMessage(viewers[v].code, msg)

\* Lines 282-285: the message built from a frame read on v's connection.
ViewerWrap(v, msg) == ViewerMessage(uuidString(v), msg)

\* A variant of ViewerReadWS whose failed read also cancels the scope of the
\* streamer the viewer refers to.
ViewerReadWSCancelsStreamer(v) ==
    /\ viewers[v].state = "running"
    /\ viewers[v].readWS = "read"
    /\ LET errs == OpErrors(viewers[v].Ctx, viewers[v].Conn) IN
       IF errs = {}
         THEN /\ FramesRead < scenario.msgs
              /\ FramesOf(viewers, ViewerIDs) < scenario.fromViewers
              /\ viewers' = [viewers EXCEPT
                    ![v].Conn.recvN = @ + 1,
                    ![v].readWS = "push",
                    ![v].In = <<ViewerWrap(v, ViewerFrame(v, viewers[v].Conn.recvN + 1))>>]
              /\ UNCHANGED streamers
         ELSE \E err \in errs :
                /\ viewers' = [viewers EXCEPT
                      ![v].Ctx = Cancel(@, err),
                      ![v].readWS = "return"]
                /\ streamers' = [streamers EXCEPT
                      ![viewers[v].Streamer].Ctx = Cancel(@, err)]
    /\ UNCHANGED <<SR, VR, scenario, Mu, tasks>>

\* A variant of ViewerReadWS that, like the streamer's readWS, does not return
\* on an error: it cancels the scope and goes on to push the empty message.
ViewerReadWSNoReturn(v) ==
    /\ viewers[v].state = "running"
    /\ viewers[v].readWS = "read"
    /\ LET errs == OpErrors(viewers[v].Ctx, viewers[v].Conn) IN
       IF errs = {}
         THEN /\ FramesRead < scenario.msgs
              /\ FramesOf(viewers, ViewerIDs) < scenario.fromViewers
              /\ viewers' = [viewers EXCEPT
                    ![v].Conn.recvN = @ + 1,
                    ![v].readWS = "push",
                    ![v].In = <<ViewerWrap(v, ViewerFrame(v, viewers[v].Conn.recvN + 1))>>]
         ELSE \E err \in errs :
                viewers' = [viewers EXCEPT
                   ![v].Ctx = Cancel(@, err),
                   ![v].readWS = "push",
                   ![v].In = <<ViewerWrap(v, <<>>)>>]
    /\ UNCHANGED <<SR, VR, streamers, scenario, Mu, tasks>>

\* One iteration up to the push: read a frame; an error cancels the viewer's
\* scope and returns; otherwise wrap the frame and go on to the push.
ViewerReadWS(v) ==
    /\ viewers[v].state = "running"
    /\ viewers[v].readWS = "read"
    /\ LET errs == OpErrors(viewers[v].Ctx, viewers[v].Conn) IN
       IF errs = {}
         THEN /\ FramesRead < scenario.msgs
              /\ FramesOf(viewers, ViewerIDs) < scenario.fromViewers
              /\ viewers' = [viewers EXCEPT
                    ![v].Conn.recvN = @ + 1,
                    ![v].readWS = "push",
                    ![v].In = <<ViewerWrap(v, ViewerFrame(v, viewers[v].Conn.recvN + 1))>>]
         ELSE \E err \in errs :
                viewers' = [viewers EXCEPT
                   ![v].Ctx = Cancel(@, err),
                   ![v].readWS = "return"]
    /\ UNCHANGED <<SR, VR, streamers, scenario, Mu, tasks>>

\* ------------------------------------------------------ cleanup (AfterFunc)
\* The log line of the second cleanup function (lines 104-114).
StreamerLog(cause) ==
    IF cause = errCloseError THEN "info: Streamer disconnected"
    ELSE "error: Streamer context closed"

\* A variant of ViewerLog without the errClientSignalTimeout case.
ViewerLogNoTimeout(cause) ==
    IF cause = errCloseError THEN "info: Viewer released WS connection"
    ELSE "error: Viewer context closed"

\* The log line of the viewer's second cleanup function (lines 174-189).
ViewerLog(cause) ==
    IF cause = errCloseError THEN "info: Viewer released WS connection"
    ELSE IF cause = errClientSignalTimeout THEN "info: Viewer WS timed out"
    ELSE "error: Viewer context closed"

\* A variant of StreamerAfterFunc that does not wait for the scope to be done.
StreamerAfterFuncAtOnce(s) ==
    /\ streamers[s].state = "running"
    /\ streamers[s].afterFunc = "armed"
    /\ streamers' = [streamers EXCEPT ![s].Conn.closed = Append(@, Close(StatusNormalClosure, "Done")),
                                      ![s].log = Append(@, StreamerLog(streamers[s].Ctx)),
                                      ![s].afterFunc = "done"]
    /\ SR' = MapDelete(SR, streamers[s].Code)
    /\ UNCHANGED <<VR, viewers, scenario, Mu, tasks>>

\* The streamer's scope is done and its two cleanup functions run (lines
\* 96-114): conn.Close(StatusNormalClosure, "Done"), then
\* delete(s.SR.Entries, code) under the exclusive lock; and the log line.
StreamerAfterFunc(s) ==
    /\ streamers[s].state = "running"
    /\ streamers[s].Ctx # NotDone
    /\ streamers[s].afterFunc = "armed"
    /\ streamers' = [streamers EXCEPT ![s].Conn.closed = Append(@, Close(StatusNormalClosure, "Done")),
                                      ![s].log = Append(@, StreamerLog(streamers[s].Ctx)),
                                      ![s].afterFunc = "done"]
    /\ SR' = MapDelete(SR, streamers[s].Code)
    /\ UNCHANGED <<VR, viewers, scenario, Mu, tasks>>

\* A variant of ViewerAfterFunc for a push that also selects on
\* v.Ctx.Done(): a readWS blocked in the push returns when the scope is done.
ViewerAfterFuncReleasesPush(v) ==
    /\ viewers[v].state \in {"scoped", "running"}
    /\ viewers[v].Ctx # NotDone
    /\ viewers[v].afterFunc = "armed"
    /\ viewers' = [viewers EXCEPT ![v].Conn.closed = Append(@, Close(StatusNormalClosure, "Done")),
                                  ![v].log = Append(@, ViewerLog(viewers[v].Ctx)),
                                  ![v].afterFunc = "done",
                                  ![v].In = <<>>,
                                  ![v].readWS = IF @ = "push" THEN "return" ELSE @]
    /\ VR' = MapDelete(VR, v)
    /\ UNCHANGED <<SR, streamers, scenario, Mu, tasks>>

\* A variant of ViewerAfterFunc whose delete empties the viewer registry.
ViewerAfterFuncClearsRegistry(v) ==
    /\ viewers[v].state \in {"scoped", "running"}
    /\ viewers[v].Ctx # NotDone
    /\ viewers[v].afterFunc = "armed"
    /\ viewers' = [viewers EXCEPT ![v].Conn.closed = Append(@, Close(StatusNormalClosure, "Done")),
                                  ![v].log = Append(@, ViewerLog(viewers[v].Ctx)),
                                  ![v].afterFunc = "done"]
    /\ VR' = EmptyMap
    /\ UNCHANGED <<SR, streamers, scenario, Mu, tasks>>

\* The viewer's scope is done and its two cleanup functions run (lines
\* 166-189): conn.Close(StatusNormalClosure, "Done"), then
\* delete(s.VR.Entries, viewerID) under the exclusive lock; and the log line.
ViewerAfterFunc(v) ==
    /\ viewers[v].state \in {"scoped", "running"}
    /\ viewers[v].Ctx # NotDone
    /\ viewers[v].afterFunc = "armed"
    /\ viewers' = [viewers EXCEPT ![v].Conn.closed = Append(@, Close(StatusNormalClosure, "Done")),
                                  ![v].log = Append(@, ViewerLog(viewers[v].Ctx)),
                                  ![v].afterFunc = "done"]
    /\ VR' = MapDelete(VR, v)
    /\ UNCHANGED <<SR, streamers, scenario, Mu, tasks>>

\* ------------------------------------------------------------- environment
\* The peer of a connection closes it or the transport fails.  (Once the
\* scope is done the connection is being closed anyway: a failure after that
\* is not told apart from the Close that follows.)
StreamerConnFails(s) ==
    /\ streamers[s].state = "running"
    /\ streamers[s].Conn.net = "up"
    /\ streamers[s].Ctx = NotDone
    /\ ConnsFailed < scenario.failures
    /\ streamers' = [streamers EXCEPT ![s].Conn.net = "down"]
    /\ UNCHANGED <<SR, VR, viewers, scenario, Mu, tasks>>

ViewerConnFails(v) ==
    /\ viewers[v].state = "running"
    /\ viewers[v].Conn.net = "up"
    /\ viewers[v].Ctx = NotDone
    /\ ConnsFailed < scenario.failures
    /\ viewers' = [viewers EXCEPT ![v].Conn.net = "down"]
    /\ UNCHANGED <<SR, VR, streamers, scenario, Mu, tasks>>

Next ==
    \/ \E s \in StreamerPtrs : \E code \in generateStreamerCode(s), net \in {"up", "down"} :
          HandleStreamerWSAccept(s, code, net)
    \/ \E s \in StreamerPtrs : HandleStreamerWSRegister(s)
    \/ \E v \in ViewerIDs, code \in Codes : HandleViewerWSLookup(v, code)
    \/ \E v \in ViewerIDs : HandleViewerWSScope(v)
    \/ \E v \in ViewerIDs : HandleViewerWSRegister(v)
    \/ \E v \in ViewerIDs : ViewerDeadline(v)
    \/ \E s \in StreamerPtrs : StreamerReadWS(s)
    \/ \E s \in StreamerPtrs : HandleOutDone(s)
    \/ \E s \in StreamerPtrs : HandleOutRecv(s)
    \/ \E s \in StreamerPtrs : HandleOutWrite(s)
    \/ \E s \in StreamerPtrs : HandleInDone(s)
    \/ \E s \in StreamerPtrs, v \in ViewerIDs : HandleInRecv(s, v)
    \/ \E s \in StreamerPtrs : HandleInWrite(s)
    \/ \E v \in ViewerIDs : ViewerReadWS(v)
    \/ \E s \in StreamerPtrs : StreamerAfterFunc(s)
    \/ \E v \in ViewerIDs : ViewerAfterFunc(v)
    \/ \E s \in StreamerPtrs : StreamerConnFails(s)
    \/ \E v \in ViewerIDs : ViewerConnFails(v)

Spec == Init /\ [][Next]_vars

\* Scheduling: a goroutine that can take a step eventually takes it, a
\* select with several ready cases eventually takes each one that stays
\* ready, and a sender blocked on a channel is eventually served when the
\* receiver keeps coming back to its select.  A read that would return a
\* frame waits for the peer, and the peer, the transport and the deadline
\* are under no obligation.
StreamerReadWSFails(s) ==
    /\ OpErrors(streamers[s].Ctx, streamers[s].Conn) # {}
    /\ StreamerReadWS(s)

ViewerReadWSFails(v) ==
    /\ OpErrors(viewers[v].Ctx, viewers[v].Conn) # {}
    /\ ViewerReadWS(v)

Fairness ==
    /\ \A s \in StreamerPtrs :
          /\ WF_vars(HandleStreamerWSRegister(s))
          /\ WF_vars(StreamerReadWSFails(s))
          /\ WF_vars(HandleOutDone(s))
          /\ WF_vars(HandleOutRecv(s))
          /\ WF_vars(HandleOutWrite(s))
          /\ WF_vars(HandleInDone(s))
          /\ WF_vars(HandleInWrite(s))
          /\ WF_vars(StreamerAfterFunc(s))
          /\ \A v \in ViewerIDs : SF_vars(HandleInRecv(s, v))
    /\ \A v \in ViewerIDs :
          /\ WF_vars(HandleViewerWSScope(v))
          /\ WF_vars(HandleViewerWSRegister(v))
          /\ WF_vars(ViewerReadWSFails(v))
          /\ WF_vars(ViewerAfterFunc(v))

LiveInit ==
    /\ scenario \in LiveScenarios
    /\ SR = EmptyMap
    /\ VR = EmptyMap
    /\ streamers = [s \in StreamerPtrs |-> NoStreamer]
    /\ viewers = [v \in ViewerIDs |-> NoViewer]
    /\ Mu = Unlocked
    /\ tasks = NoTasks

LiveSpec == LiveInit /\ [][Next]_vars /\ Fairness

\* Time passes: the timer started at line 161 eventually expires.
DeadlineFairness == \A v \in ViewerIDs : WF_vars(ViewerDeadline(v))

DeadlineInit ==
    /\ scenario = DeadlineScenario
    /\ SR = EmptyMap
    /\ VR = EmptyMap
    /\ streamers = [s \in StreamerPtrs |-> NoStreamer]
    /\ viewers = [v \in ViewerIDs |-> NoViewer]
    /\ Mu = Unlocked
    /\ tasks = NoTasks

DeadlineSpec == DeadlineInit /\ [][Next]_vars /\ Fairness /\ DeadlineFairness

CollisionInit ==
    /\ scenario = CollisionScenario
    /\ SR = EmptyMap
    /\ VR = EmptyMap
    /\ streamers = [s \in StreamerPtrs |-> NoStreamer]
    /\ viewers = [v \in ViewerIDs |-> NoViewer]
    /\ Mu = Unlocked
    /\ tasks = NoTasks

CollisionSpec == CollisionInit /\ [][Next]_vars

\* ------------------------------------------------ steps of the lock-level view
LockScenario ==
    [streamers |-> 0, viewers |-> 0, msgs |-> 0, fromStreamers |-> 0,
     fromViewers |-> 0, failures |-> 0, deadlines |-> 0]

Running(t) == tasks[t].pc <= Len(Program(t))

NextOp(t) == Program(t)[tasks[t].pc]

Executed(t, line) ==
    \E i \in 1..(tasks[t].pc - 1) : Program(t)[i].line = line

Started(t) ==
    IF StartedAt(t).task = "" THEN TRUE
    ELSE Executed(StartedAt(t).task, StartedAt(t).line)

Advance(t) == tasks' = [tasks EXCEPT ![t].pc = @ + 1, ![t].acc = FALSE]

Sessions == <<SR, VR, streamers, viewers, scenario>>

\* Mu.Lock(): waits until there is neither a writer nor a reader.
TaskLock(t) ==
    /\ Running(t) /\ Started(t)
    /\ NextOp(t).op = "Lock"
    /\ Mu[NextOp(t).reg].writer = ""
    /\ Mu[NextOp(t).reg].readers = {}
    /\ Mu' = [Mu EXCEPT ![NextOp(t).reg].writer = t]
    /\ Advance(t)
    /\ UNCHANGED Sessions

\* Mu.Unlock().
TaskUnlock(t) ==
    /\ Running(t) /\ Started(t)
    /\ NextOp(t).op = "Unlock"
    /\ Mu' = [Mu EXCEPT ![NextOp(t).reg].writer = ""]
    /\ Advance(t)
    /\ UNCHANGED Sessions

\* Mu.RLock(): waits until there is no writer.
TaskRLock(t) ==
    /\ Running(t) /\ Started(t)
    /\ NextOp(t).op = "RLock"
    /\ Mu[NextOp(t).reg].writer = ""
    /\ Mu' = [Mu EXCEPT ![NextOp(t).reg].readers = @ \cup {t}]
    /\ Advance(t)
    /\ UNCHANGED Sessions

\* Mu.RUnlock().
TaskRUnlock(t) ==
    /\ Running(t) /\ Started(t)
    /\ NextOp(t).op = "RUnlock"
    /\ Mu' = [Mu EXCEPT ![NextOp(t).reg].readers = @ \ {t}]
    /\ Advance(t)
    /\ UNCHANGED Sessions

\* A map access takes time: it begins ...
TaskMapAccessBegin(t) ==
    /\ Running(t) /\ Started(t)
    /\ NextOp(t).op \in {"Lookup", "Insert", "Delete"}
    /\ ~tasks[t].acc
    /\ tasks' = [tasks EXCEPT ![t].acc = TRUE]
    /\ UNCHANGED <<Sessions, Mu>>

\* ... and ends.
TaskMapAccessEnd(t) ==
    /\ Running(t)
    /\ tasks[t].acc
    /\ Advance(t)
    /\ UNCHANGED <<Sessions, Mu>>

\* Socket, channel, log and spawn operations.
TaskStep(t) ==
    /\ Running(t) /\ Started(t)
    /\ NextOp(t).op \in {"Accept", "Read", "Write", "Close", "Send", "Recv",
                         "AfterFunc", "Go", "Log"}
    /\ Advance(t)
    /\ UNCHANGED <<Sessions, Mu>>

LockNext ==
    \E t \in TaskIDs :
        \/ TaskLock(t)
        \/ TaskUnlock(t)
        \/ TaskRLock(t)
        \/ TaskRUnlock(t)
        \/ TaskMapAccessBegin(t)
        \/ TaskMapAccessEnd(t)
        \/ TaskStep(t)

LockInit ==
    /\ scenario = LockScenario
    /\ SR = EmptyMap
    /\ VR = EmptyMap
    /\ streamers = [s \in StreamerPtrs |-> NoStreamer]
    /\ viewers = [v \in ViewerIDs |-> NoViewer]
    /\ Mu = Unlocked
    /\ tasks = NoTasks

LockSpec == LockInit /\ [][LockNext]_vars

\* Any step of goroutine t.
TaskNext(t) ==
    \/ TaskLock(t)
    \/ TaskUnlock(t)
    \/ TaskRLock(t)
    \/ TaskRUnlock(t)
    \/ TaskMapAccessBegin(t)
    \/ TaskMapAccessEnd(t)
    \/ TaskStep(t)

\* Scheduling of the lock-level view: a goroutine that can take its next
\* step takes it; for a goroutine in Lock or RLock that is when the mutex
\* stays free for it (sync.RWMutex hands the mutex over to a waiter).
LockFairness == \A t \in TaskIDs : WF_vars(TaskNext(t))

LockLiveSpec == LockInit /\ [][LockNext]_vars /\ LockFairness

\* =================================================================== claims
Range(f) == {f[i] : i \in DOMAIN f}
Live(v) == viewers[v].state = "running" /\ viewers[v].Ctx = NotDone
Idle == [pc |-> "select", viewer |-> 0, data |-> <<>>]

\* The step is handleOut's write of streamer s (HandleOutWrite(s)).
HandleOutWriteStep(s) ==
    /\ streamers[s].handleOut.pc = "write"
    /\ streamers'[s].handleOut.pc # "write"

\* The step is handleOut's receive of streamer s (HandleOutRecv(s)).
HandleOutRecvStep(s) ==
    /\ streamers[s].handleOut.pc = "select"
    /\ streamers[s].Out # <<>>
    /\ streamers'[s].Out = <<>>

\* C1. When handleOut's write to viewer a's connection fails, a's scope is
\* cancelled and no other scope changes: not the scope of any streamer (the
\* sender included), not the scope of any other viewer.
C1_FailureIsolation ==
    [][\A s \in StreamerPtrs :
         HandleOutWriteStep(s) =>
           LET a == streamers[s].handleOut.viewer IN
             /\ \A t \in StreamerPtrs : streamers'[t].Ctx = streamers[t].Ctx
             /\ \A v \in ViewerIDs \ {a} : viewers'[v].Ctx = viewers[v].Ctx
             /\ viewers'[a].Conn.sent = viewers[a].Conn.sent
                   => viewers'[a].Ctx # NotDone]_vars

\* A viewer cancelled with a transport error while its own readWS has not
\* returned was cancelled by handleOut's failed write; the streamer and the
\* other viewer are still live.
C1_Witness ==
    \E s \in StreamerPtrs, a, b \in ViewerIDs :
       /\ a # b
       /\ viewers[a].Ctx \in NetFailures
       /\ viewers[a].readWS \in {"read", "push"}
       /\ Live(b)
       /\ streamers[s].state = "running"
       /\ streamers[s].Ctx = NotDone

\* C2. Every message a streamer has read that is addressed to a registered,
\* live viewer b is eventually written to b's connection, whatever happened
\* to writes to other viewers before, unless the streamer's connection or
\* scope fails or b's connection or scope does.
C2_OthersStillDelivered ==
    \A s \in StreamerPtrs, b \in ViewerIDs, k \in 1..MaxMsgs :
       (/\ streamers[s].Out
             = <<StreamerMessage(uuidString(b), StreamerFrame(s, k, uuidString(b)))>>
        /\ b \in DOMAIN VR
        /\ Live(b))
       ~> (\/ StreamerFrame(s, k, uuidString(b)) \in Range(viewers[b].Conn.sent)
           \/ streamers[s].Ctx # NotDone
           \/ streamers[s].Conn.net # "up"
           \/ b \notin DOMAIN VR
           \/ viewers[b].Conn.net # "up")

\* handleOut's write of the first frame, to a, failed (a was cancelled with a
\* transport error while its own readWS had not returned), and the second
\* frame, to b, is on b's connection.
C2_Witness ==
    \E s \in StreamerPtrs, a, b \in ViewerIDs :
       /\ a # b
       /\ viewers[a].Ctx \in NetFailures
       /\ viewers[a].readWS \in {"read", "push"}
       /\ viewers[a].Conn.sent = <<>>
       /\ viewers[b].Conn.sent = <<StreamerFrame(s, 2, uuidString(b))>>
       /\ streamers[s].Ctx = NotDone

\* C3. An accept-viewer whose code is not in the streamer registry at lookup
\* time closes the connection with (1000, "NO_STREAMER") and does nothing
\* else: no session, no registry entry, no task, no cleanup, then or later.
C3_UnknownCodeRejected ==
    /\ [][\A v \in ViewerIDs :
            (viewers[v].state = "none" /\ viewers'[v].state # "none"
               /\ viewers'[v].code \notin DOMAIN SR)
            => /\ viewers'[v] =
                    [NoViewer EXCEPT
                       !.state = "rejected",
                       !.code = viewers'[v].code,
                       !.Conn.closed = <<Close(1000, "NO_STREAMER")>>]
               /\ SR' = SR
               /\ VR' = VR
               /\ streamers' = streamers
               /\ \A w \in ViewerIDs \ {v} : viewers'[w] = viewers[w]]_vars
    /\ [][\A v \in ViewerIDs :
            viewers[v].state = "rejected"
            => viewers'[v] = viewers[v] /\ v \notin DOMAIN VR']_vars

C3_Witness ==
    \E v \in ViewerIDs :
       /\ viewers[v].state = "rejected"
       /\ \E w \in ViewerIDs : Live(w) /\ w \in DOMAIN VR
       /\ \E s \in StreamerPtrs : streamers[s].Conn.recvN > 0

\* C4. An accept-viewer whose code is in the streamer registry at lookup time
\* keeps the streamer found under it and does not close the connection; its
\* registration adds the entry id -> session to the viewer registry, where
\* the session references that streamer, and changes no other entry of the
\* viewer registry and nothing in the streamer registry.
C4_KnownCodeAccepted ==
    /\ [][\A v \in ViewerIDs :
            (viewers[v].state = "none" /\ viewers'[v].state # "none"
               /\ viewers'[v].code \in DOMAIN SR)
            => /\ viewers'[v].state = "found"
               /\ viewers'[v].Streamer = SR[viewers'[v].code]
               /\ viewers'[v].Conn.closed = <<>>
               /\ SR' = SR
               /\ VR' = VR]_vars
    /\ [][\A v \in ViewerIDs :
            (viewers[v].state = "found" /\ viewers'[v].state # "found")
            => /\ viewers'[v].state = "scoped"
               /\ viewers'[v].Streamer = viewers[v].Streamer
               /\ viewers'[v].Conn.closed = <<>>
               /\ SR' = SR
               /\ VR' = VR]_vars
    /\ [][\A v \in ViewerIDs :
            (viewers[v].state = "scoped" /\ viewers'[v].state # "scoped")
            => /\ viewers'[v].state = "running"
               /\ viewers'[v].Streamer = viewers[v].Streamer
               /\ viewers'[v].Conn = viewers[v].Conn
               /\ v \notin DOMAIN VR
               /\ DOMAIN VR' = DOMAIN VR \cup {v}
               /\ VR'[v] = v
               /\ \A w \in DOMAIN VR : VR'[w] = VR[w]
               /\ SR' = SR]_vars

C4_Witness ==
    \E v, w \in ViewerIDs, s \in StreamerPtrs :
       /\ v # w
       /\ {v, w} \subseteq DOMAIN VR
       /\ viewers[v].state = "running"
       /\ viewers[v].Streamer = s
       /\ viewers[v].code \in DOMAIN SR
       /\ SR[viewers[v].code] = s

C6_ViewerMessageDelivered ==
    \A s \in StreamerPtrs, v \in ViewerIDs, k \in 1..MaxMsgs :
       (/\ viewers[v].Streamer = s
        /\ viewers[v].readWS = "push"
        /\ viewers[v].In = <<ViewerMessage(uuidString(v), ViewerFrame(v, k))>>
        /\ streamers[s].Ctx = NotDone)
       ~> (\/ ViewerMessage(uuidString(v), ViewerFrame(v, k))
                 \in Range(streamers[s].Conn.sent)
           \/ streamers[s].Ctx # NotDone
           \/ streamers[s].Conn.net # "up")

\* Both frames of a viewer are on the streamer's connection, after the code
\* message, and nothing failed.
C6_Witness ==
    \E s \in StreamerPtrs, v \in ViewerIDs :
       /\ streamers[s].Ctx = NotDone
       /\ streamers[s].Conn.net = "up"
       /\ viewers[v].Conn.net = "up"
       /\ streamers[s].Conn.sent
            = <<CodeMessage(streamers[s].Code),
                ViewerMessage(uuidString(v), ViewerFrame(v, 1)),
                ViewerMessage(uuidString(v), ViewerFrame(v, 2))>>

\* C7. What is written to a viewer's connection is exactly the data of a
\* message read from a streamer's connection whose `to` is that viewer's id;
\* no payload is written twice or to two connections, and the outbound relay
\* writes nothing to a streamer's connection.
C7_OnlyToTheTarget ==
    /\ [](\A v \in ViewerIDs :
            \A i \in 1..Len(viewers[v].Conn.sent) :
               \E s \in StreamerPtrs :
                  \E k \in 1..streamers[s].Conn.recvN :
                     viewers[v].Conn.sent[i] = StreamerFrame(s, k, uuidString(v)))
    /\ [](\A v, w \in ViewerIDs :
            \A i \in 1..Len(viewers[v].Conn.sent), j \in 1..Len(viewers[w].Conn.sent) :
               viewers[v].Conn.sent[i] = viewers[w].Conn.sent[j] => v = w /\ i = j)
    /\ [][\A s \in StreamerPtrs :
            HandleOutWriteStep(s) \/ HandleOutRecvStep(s)
            => \A t \in StreamerPtrs : streamers'[t].Conn.sent = streamers[t].Conn.sent]_vars
    /\ [][\A s \in StreamerPtrs :
            (HandleOutRecvStep(s) /\ streamers'[s].handleOut.pc = "write")
            => LET out == streamers[s].Out[1] IN
               /\ uuidValid(out.To)
               /\ uuidParse(out.To) \in DOMAIN VR
               /\ streamers'[s].handleOut.viewer = VR[uuidParse(out.To)]
               /\ streamers'[s].handleOut.data = out.Data]_vars

C7_Witness ==
    \A v \in ViewerIDs : Len(viewers[v].Conn.sent) = 1

\* C8. When the outbound relay receives a message whose `to` does not parse
\* or is not in the viewer registry, it writes nothing, cancels no scope,
\* keeps nothing of the message and is back at its select.
C8_BadTargetDropped ==
    [][\A s \in StreamerPtrs :
         (HandleOutRecvStep(s)
            /\ ~(uuidValid(streamers[s].Out[1].To)
                  /\ uuidParse(streamers[s].Out[1].To) \in DOMAIN VR))
         => /\ streamers'[s].handleOut = Idle
            /\ viewers' = viewers
            /\ SR' = SR /\ VR' = VR
            /\ \A t \in StreamerPtrs :
                  /\ streamers'[t].Ctx = streamers[t].Ctx
                  /\ streamers'[t].Conn = streamers[t].Conn
                  /\ streamers'[t].handleIn = streamers[t].handleIn]_vars

\* The streamer's first frame is nowhere (it was dropped, no write of it
\* failed) and its second has been delivered.
C8_Witness ==
    \E s \in StreamerPtrs, v \in ViewerIDs :
       /\ streamers[s].Conn.recvN = 2
       /\ streamers[s].Ctx = NotDone
       /\ \A w \in ViewerIDs : viewers[w].state = "running" => viewers[w].Ctx = NotDone
       /\ viewers[v].Conn.sent = <<StreamerFrame(s, 2, uuidString(v))>>
       /\ \A w \in ViewerIDs \ {v} : viewers[w].Conn.sent = <<>>

\* C9. Once a streamer's scope has fired, nothing more is written to its
\* connection, no write that its handleOut performs puts anything on a
\* viewer's connection, and its code eventually leaves the streamer registry.
C9_FailedStreamerStops ==
    /\ [][\A s \in StreamerPtrs :
            streamers[s].Ctx # NotDone
            => /\ streamers'[s].Conn.sent = streamers[s].Conn.sent
               /\ HandleOutWriteStep(s)
                    => \A v \in ViewerIDs :
                          viewers'[v].Conn.sent = viewers[v].Conn.sent]_vars
    /\ \A s \in StreamerPtrs :
          (streamers[s].Ctx # NotDone) ~> (streamers[s].Code \notin DOMAIN SR)

\* The streamer's scope fired on a failure of its connection, its code is
\* out of the registry, and a write that handleOut made afterwards failed on
\* the fired scope without reaching the viewer's connection.
C9_Witness ==
    \E s \in StreamerPtrs, v \in ViewerIDs :
       /\ streamers[s].Ctx \in NetFailures
       /\ streamers[s].afterFunc = "done"
       /\ streamers[s].Code \notin DOMAIN SR
       /\ streamers[s].Conn.recvN > 0
       /\ viewers[v].Ctx = errCanceled
       /\ viewers[v].Conn.sent = <<>>

\* C10. No viewer's scope is cancelled by a write that handleOut performs
\* after its streamer's scope has fired.
C10_NoCascade ==
    [][\A s \in StreamerPtrs :
         (HandleOutWriteStep(s) /\ streamers[s].Ctx # NotDone)
         => LET a == streamers[s].handleOut.viewer IN
            viewers'[a].Ctx = viewers[a].Ctx]_vars

\* The step cancels the scope of viewer v.
ViewerCancelStep(v) ==
    /\ viewers[v].Ctx = NotDone
    /\ viewers'[v].Ctx # NotDone

\* The step is the cleanup of viewer v (ViewerAfterFunc(v)).
ViewerAfterFuncStep(v) ==
    /\ viewers[v].afterFunc = "armed"
    /\ viewers'[v].afterFunc = "done"

\* C11. A step that cancels a viewer's scope, whatever its cause, changes no
\* streamer's scope, neither registry, no other viewer and not the viewer's
\* own connection; the viewer's cleanup closes that viewer's connection with
\* (1000, "Done"), deletes that viewer's id from the viewer registry, and
\* changes no streamer, no other viewer, no other entry and not the
\* streamer registry.
C11_ViewerCancelIsLocal ==
    /\ [][\A v \in ViewerIDs :
            ViewerCancelStep(v)
            => /\ \A s \in StreamerPtrs : streamers'[s].Ctx = streamers[s].Ctx
               /\ SR' = SR
               /\ VR' = VR
               /\ viewers'[v].Conn = viewers[v].Conn
               /\ \A w \in ViewerIDs \ {v} : viewers'[w] = viewers[w]]_vars
    /\ [][\A v \in ViewerIDs :
            ViewerAfterFuncStep(v)
            => /\ streamers' = streamers
               /\ SR' = SR
               /\ VR' = MapDelete(VR, v)
               /\ viewers'[v].Conn.closed = <<Close(1000, "Done")>>
               /\ \A w \in ViewerIDs \ {v} : viewers'[w] = viewers[w]]_vars

\* Viewer a was cancelled by a failed write of handleOut and cleaned up,
\* while the streamer and the other viewer are live and registered.
C11_Witness ==
    \E s \in StreamerPtrs, a, b \in ViewerIDs :
       /\ a # b
       /\ viewers[a].Ctx \in NetFailures
       /\ viewers[a].readWS \in {"read", "push"}
       /\ viewers[a].afterFunc = "done"
       /\ a \notin DOMAIN VR
       /\ Live(b) /\ b \in DOMAIN VR
       /\ streamers[s].Ctx = NotDone
       /\ streamers[s].Code \in DOMAIN SR

\* A streamer session that has been accepted and whose scope has not fired.
LiveStreamer(s) == streamers[s].state # "none" /\ streamers[s].Ctx = NotDone

\* C12. No two streamer sessions that are live at the same time hold the
\* same code.
C12_UniqueCodes ==
    \A s, t \in StreamerPtrs :
       (s # t /\ LiveStreamer(s) /\ LiveStreamer(t))
       => streamers[s].Code # streamers[t].Code

\* C13. On the connection of every accepted streamer the first frame written
\* is the message carrying its code, written at acceptance unless the
\* connection had already failed; every later frame is a viewer message, so
\* the code message is there once and no viewer message precedes it.
C13_CodeMessageFirst ==
    \A s \in StreamerPtrs :
       streamers[s].state # "none"
       => LET sent == streamers[s].Conn.sent IN
          /\ streamers[s].Conn.net = "up" => sent # <<>>
          /\ sent # <<>> => sent[1] = CodeMessage(streamers[s].Code)
          /\ \A i \in 2..Len(sent) : DOMAIN sent[i] = {"From", "Data"}

\* A viewer message has been relayed to a streamer, after the code message.
C13_Witness ==
    \E s \in StreamerPtrs, v \in ViewerIDs :
       streamers[s].Conn.sent
         = <<CodeMessage(streamers[s].Code),
             ViewerMessage(uuidString(v), ViewerFrame(v, 1))>>

\* The cleanup of viewer v has run: its scope is done and its connection is
\* closed with (1000, "Done").
ViewerClosed(v) ==
    /\ viewers[v].Ctx # NotDone
    /\ viewers[v].afterFunc = "done"
    /\ viewers[v].Conn.closed = <<Close(1000, "Done")>>

\* C14. When time passes, every viewer session whose scope has been created
\* has its scope cancelled and is closed, whatever it reads or is sent in
\* between; and a scope that is not done can always be cancelled by its
\* deadline, whatever the session has read or been sent.
C14_DeadlineIsAbsolute ==
    /\ \A v \in ViewerIDs :
          (viewers[v].state \in {"scoped", "running"}) ~> ViewerClosed(v)
    /\ [](\A v \in ViewerIDs :
            (viewers[v].state \in {"scoped", "running"} /\ viewers[v].Ctx = NotDone)
            => ENABLED ViewerDeadline(v))

\* A viewer that has read a frame and has been sent one was cancelled by its
\* deadline and closed.
C14_Witness ==
    \E v \in ViewerIDs :
       /\ viewers[v].Ctx = errClientSignalTimeout
       /\ ViewerClosed(v)
       /\ viewers[v].Conn.recvN > 0
       /\ viewers[v].Conn.sent # <<>>

\* C15. A running streamer whose connection has not failed has a scope that
\* is not done and is the session registered under its code, whatever
\* viewers have connected, timed out or failed.
C15_StreamerStaysRegistered ==
    \A s \in StreamerPtrs :
       (streamers[s].state = "running" /\ streamers[s].Conn.net = "up")
       => /\ streamers[s].Ctx = NotDone
          /\ streamers[s].Code \in DOMAIN SR
          /\ SR[streamers[s].Code] = s

\* C16. No task of a session whose scope has fired is blocked for ever: the
\* streamer's readWS is not blocked in `s.Out <- out` once handleOut, the
\* only receiver of s.Out, has returned, and the readWS of a viewer whose
\* scope has fired is not blocked in `v.Streamer.In <- message` once
\* handleIn, the only receiver of that queue, has returned.
C16_NoTaskBlockedForEver ==
    /\ \A s \in StreamerPtrs :
          streamers[s].handleOut.pc = "return" => streamers[s].Out = <<>>
    /\ \A v \in ViewerIDs :
          (viewers[v].Ctx # NotDone /\ viewers[v].readWS = "push")
          => streamers[viewers[v].Streamer].handleIn.pc # "return"

\* C17. The cause of a scope that is done never changes, whatever cancel
\* call or deadline comes later.
C17_FirstCauseWins ==
    [][/\ \A s \in StreamerPtrs :
            streamers[s].Ctx # NotDone => streamers'[s].Ctx = streamers[s].Ctx
       /\ \A v \in ViewerIDs :
            viewers[v].Ctx # NotDone => viewers'[v].Ctx = viewers[v].Ctx]_vars

\* A viewer cancelled by its deadline whose readWS then failed and called
\* v.Cancel with the read's error, next to a streamer cancelled by a
\* transport error and cleaned up.
C17_Witness ==
    /\ \E v \in ViewerIDs :
          /\ viewers[v].Ctx = errClientSignalTimeout
          /\ viewers[v].readWS = "return"
    /\ \E s \in StreamerPtrs :
          /\ streamers[s].Ctx \in NetFailures
          /\ streamers[s].afterFunc = "done"
          /\ streamers[s].handleOut.pc = "select"
          /\ streamers[s].Out = <<ZeroStreamerMessage>>

\* The cleanup of streamer s has run: its connection is closed with
\* (1000, "Done").
StreamerClosed(s) ==
    /\ streamers[s].Ctx # NotDone
    /\ streamers[s].afterFunc = "done"
    /\ streamers[s].Conn.closed = <<Close(1000, "Done")>>

\* C18. The cleanup of a session runs once its scope is done, never before
\* and never twice: while it has not run the connection is not closed and
\* nothing is logged; once it has run the scope is done, the connection has
\* been closed exactly once, with (1000, "Done"), one line is logged, and
\* none of this changes any more; a key leaves a registry only in the
\* cleanup step of a session holding that key.
C18_CleanupExactlyOnce ==
    /\ [](\A s \in StreamerPtrs :
            /\ streamers[s].afterFunc = "done"
                 => StreamerClosed(s) /\ Len(streamers[s].log) = 1
            /\ streamers[s].afterFunc # "done"
                 => streamers[s].Conn.closed = <<>> /\ streamers[s].log = <<>>)
    /\ [](\A v \in ViewerIDs :
            /\ viewers[v].afterFunc = "done"
                 => ViewerClosed(v) /\ Len(viewers[v].log) = 1
            /\ (viewers[v].afterFunc # "done" /\ viewers[v].state # "rejected")
                 => viewers[v].Conn.closed = <<>> /\ viewers[v].log = <<>>)
    /\ [][/\ \A s \in StreamerPtrs :
               streamers[s].afterFunc = "done"
               => /\ streamers'[s].afterFunc = "done"
                  /\ streamers'[s].Conn.closed = streamers[s].Conn.closed
                  /\ streamers'[s].log = streamers[s].log
          /\ \A v \in ViewerIDs :
               viewers[v].afterFunc = "done"
               => /\ viewers'[v].afterFunc = "done"
                  /\ viewers'[v].Conn.closed = viewers[v].Conn.closed
                  /\ viewers'[v].log = viewers[v].log
          /\ \A c \in DOMAIN SR \ DOMAIN SR' :
               \E s \in StreamerPtrs :
                  /\ streamers[s].Code = c
                  /\ streamers[s].afterFunc = "armed"
                  /\ streamers'[s].afterFunc = "done"
          /\ \A v \in DOMAIN VR \ DOMAIN VR' : ViewerAfterFuncStep(v)]_vars
    /\ \A s \in StreamerPtrs : (streamers[s].Ctx # NotDone) ~> StreamerClosed(s)
    /\ \A v \in ViewerIDs : (viewers[v].Ctx # NotDone) ~> ViewerClosed(v)

\* A viewer that was cancelled by its deadline, and again by its readWS
\* when the read failed, and a streamer that was cancelled by its readWS,
\* have each been cleaned up.
C18_Witness ==
    /\ \E v \in ViewerIDs :
          /\ viewers[v].Ctx = errClientSignalTimeout
          /\ viewers[v].readWS = "return"
          /\ ViewerClosed(v)
    /\ \E s \in StreamerPtrs :
          /\ streamers[s].Ctx \in NetFailures
          /\ StreamerClosed(s)

\* C19. Once the cleanup of a session has run, the registry does not map the
\* session's key to that session: the cleanup's delete does not come before
\* the session's insert, so no cancelled session is left registered.
C19_CleanupUnregisters ==
    /\ \A s \in StreamerPtrs :
          streamers[s].afterFunc = "done"
          => ~(streamers[s].Code \in DOMAIN SR /\ SR[streamers[s].Code] = s)
    /\ \A v \in ViewerIDs :
          viewers[v].afterFunc = "done"
          => ~(v \in DOMAIN VR /\ VR[v] = v)

\* The producer of a payload and its number among the frames read from that
\* producer's connection.
FrameOrigin(frame) == <<frame[1], frame[2]>>
FrameNumber(frame) == frame[3]

\* C20. On a streamer's connection the messages of one viewer appear in the
\* order that viewer's frames were read, and on a viewer's connection the
\* payloads of one streamer appear in the order that streamer's frames were
\* read.
C20_FifoPerProducer ==
    /\ \A s \in StreamerPtrs :
          LET sent == streamers[s].Conn.sent IN
          \A i, j \in 2..Len(sent) :
             (i < j /\ FrameOrigin(sent[i].Data) = FrameOrigin(sent[j].Data))
             => FrameNumber(sent[i].Data) < FrameNumber(sent[j].Data)
    /\ \A v \in ViewerIDs :
          LET sent == viewers[v].Conn.sent IN
          \A i, j \in 1..Len(sent) :
             (i < j /\ FrameOrigin(sent[i]) = FrameOrigin(sent[j]))
             => FrameNumber(sent[i]) < FrameNumber(sent[j])

\* Two frames of one streamer have been written to one viewer's connection.
C20_Witness ==
    \E s \in StreamerPtrs, v \in ViewerIDs :
       viewers[v].Conn.sent
         = <<StreamerFrame(s, 1, uuidString(v)), StreamerFrame(s, 2, uuidString(v))>>

\* The streamer registry maps the code of streamer s to s.
RegisteredStreamer(s) ==
    /\ streamers[s].Code \in DOMAIN SR
    /\ SR[streamers[s].Code] = s

\* C21. No step takes a session backwards: a scope that is done stays done,
\* a connection that has been closed gets no other close and is not reset,
\* a cleanup that has run stays run, and a session that was inserted and is
\* no longer in its registry is not inserted again.
C21_LifecycleMonotone ==
    [][/\ \A s \in StreamerPtrs :
            /\ streamers[s].Ctx # NotDone => streamers'[s].Ctx # NotDone
            /\ streamers[s].Conn.closed # <<>>
                 => streamers'[s].Conn.closed = streamers[s].Conn.closed
            /\ streamers[s].afterFunc = "done" => streamers'[s].afterFunc = "done"
            /\ (streamers[s].state = "running" /\ ~RegisteredStreamer(s))
                 => ~RegisteredStreamer(s)'
       /\ \A v \in ViewerIDs :
            /\ viewers[v].Ctx # NotDone => viewers'[v].Ctx # NotDone
            /\ viewers[v].Conn.closed # <<>>
                 => viewers'[v].Conn.closed = viewers[v].Conn.closed
            /\ viewers[v].afterFunc = "done" => viewers'[v].afterFunc = "done"
            /\ (viewers[v].state = "running" /\ v \notin DOMAIN VR)
                 => v \notin DOMAIN VR']_vars

\* A streamer was cleaned up and its code is registered again, for the
\* other streamer; a viewer that had been registered (a frame was relayed
\* to it) was cleaned up and is out of the registry.
C21_Witness ==
    /\ \E s, t \in StreamerPtrs :
          /\ s # t
          /\ StreamerClosed(s)
          /\ streamers[t].Code = streamers[s].Code
          /\ RegisteredStreamer(t)
    /\ \E v \in ViewerIDs :
          /\ ViewerClosed(v)
          /\ viewers[v].Conn.sent # <<>>
          /\ v \notin DOMAIN VR

\* ------------------------------------------------------------------- C22
HoldsLock(t) ==
    \E r \in Registries : Mu[r].writer = t \/ t \in Mu[r].readers

\* C22: a goroutine that holds a registry's mutex (RLock or Lock) performs
\* no socket read, write or close and no channel send or receive; the only
\* things it does before it unlocks are the map access and, in the accept
\* handlers, the go statements.
C22_LockedOnlyAroundMapAccess ==
    \A t \in TaskIDs :
        (Running(t) /\ HoldsLock(t))
            => /\ NextOp(t).op \notin
                     {"Accept", "Read", "Write", "Close", "Send", "Recv"}
               /\ NextOp(t).op \in
                     {"Lookup", "Insert", "Delete", "Go", "Unlock", "RUnlock"}

\* ------------------------------------------------------------------- C23
Accessing(t, r) == Running(t) /\ tasks[t].acc /\ NextOp(t).reg = r

\* C23: a goroutine inside a lookup holds the registry's mutex (RLock or
\* Lock), one inside an insert or delete holds it by Lock, and no two
\* goroutines are inside the same map at once unless both only look up.
C23_RaceFree ==
    \A r \in Registries : \A t \in TaskIDs :
        Accessing(t, r)
            => /\ Mu[r].writer = t \/ t \in Mu[r].readers
               /\ NextOp(t).op \in {"Insert", "Delete"} => Mu[r].writer = t
               /\ \A u \in TaskIDs \ {t} :
                      Accessing(u, r)
                          => /\ NextOp(t).op = "Lookup"
                             /\ NextOp(u).op = "Lookup"

\* handleOut is inside its lookup of VR while the viewer's handler waits at
\* line 199 for the lock, and two lookups of SR overlap.
C23_Witness ==
    /\ Accessing("handleOut", "VR")
    /\ Running("HandleViewerWS") /\ NextOp("HandleViewerWS").line = 199
    /\ Accessing("HandleViewerWSMiss", "SR")

\* ------------------------------------------------------------------- C24
\* Streamer s runs and is not cancelled, but its code now leads to another
\* session.
Superseded(s) ==
    /\ streamers[s].state = "running"
    /\ streamers[s].Ctx = NotDone
    /\ streamers[s].Code \in DOMAIN SR
    /\ SR[streamers[s].Code] # s

\* C24. When streamer t is inserted under the code of a registered streamer
\* s, the entry then leads to t and nothing else changes: s is not cancelled,
\* its tasks stay where they are, no viewer is touched.  From then on no
\* lookup returns s, and s goes on relaying: a write of handleIn that
\* succeeds puts the viewer's message on s's connection, a write of
\* handleOut that succeeds puts s's data on the viewer's connection.
C24_OverwriteOrphans ==
    [][/\ \A s, t \in StreamerPtrs :
            (/\ s # t
             /\ RegisteredStreamer(s)
             /\ streamers[t].state = "accepted"
             /\ streamers[t].Code = streamers[s].Code
             /\ streamers'[t].state = "running")
            => /\ SR'[streamers[s].Code] = t
               /\ streamers'[s] = streamers[s]
               /\ viewers' = viewers
               /\ VR' = VR
       /\ \A s \in StreamerPtrs :
            Superseded(s)
            => /\ \A v \in ViewerIDs :
                    (viewers[v].state = "none" /\ viewers'[v].state = "found")
                    => viewers'[v].Streamer = SR[streamers[s].Code]
               /\ (/\ streamers[s].handleIn.pc = "write"
                   /\ streamers'[s].handleIn.pc # "write"
                   /\ OpErrors(streamers[s].Ctx, streamers[s].Conn) = {})
                  => streamers'[s].Conn.sent
                       = Append(streamers[s].Conn.sent, streamers[s].handleIn.in[1])
               /\ \A v \in ViewerIDs :
                    (/\ HandleOutWriteStep(s)
                     /\ streamers[s].handleOut.viewer = v
                     /\ HandleOutWriteErrors(s, v) = {})
                    => viewers'[v].Conn.sent
                         = Append(viewers[v].Conn.sent, streamers[s].handleOut.data)]_vars

\* Streamer 1 has been superseded by streamer 2; the viewer attached to
\* streamer 1 has pushed a message that handleIn of streamer 1 is about to
\* write, and handleOut of streamer 1 is about to write to that viewer.
C24_Witness ==
    /\ Superseded(1)
    /\ SR[streamers[1].Code] = 2
    /\ \E v \in ViewerIDs :
          /\ viewers[v].Streamer = 1
          /\ Live(v)
          /\ streamers[1].handleIn.pc = "write"
          /\ OpErrors(streamers[1].Ctx, streamers[1].Conn) = {}
          /\ streamers[1].handleOut.pc = "write"
          /\ streamers[1].handleOut.viewer = v
          /\ HandleOutWriteErrors(1, v) = {}

\* ------------------------------------------------------------------- C25
\* The step is a read of viewer v's readWS that fails.
ViewerReadFailsStep(v) ==
    /\ viewers[v].readWS = "read"
    /\ viewers'[v].readWS # "read"
    /\ OpErrors(viewers[v].Ctx, viewers[v].Conn) # {}

\* C25. A read of the viewer's readWS that fails cancels the viewer's scope
\* with the error of the read (a scope that is already done keeps its
\* cause) and readWS returns: nothing is pushed, and a readWS that has
\* returned never reads or pushes again.
C25_ViewerReadFailureReturns ==
    [][\A v \in ViewerIDs :
          /\ ViewerReadFailsStep(v)
             => /\ viewers'[v].readWS = "return"
                /\ viewers'[v].In = <<>>
                /\ viewers'[v].Conn = viewers[v].Conn
                /\ viewers'[v].Ctx \in
                      IF viewers[v].Ctx = NotDone
                        THEN OpErrors(viewers[v].Ctx, viewers[v].Conn)
                        ELSE {viewers[v].Ctx}
                /\ streamers' = streamers
          /\ viewers[v].readWS = "return"
             => /\ viewers'[v].readWS = "return"
                /\ viewers'[v].In = <<>>
                /\ viewers'[v].Conn.recvN = viewers[v].Conn.recvN]_vars

\* Viewer v's readWS has returned after its first read failed with a network
\* error, which is the cause of the scope; no streamer has read a frame, so
\* nothing else has cancelled it.
C25_Witness ==
    \E v \in ViewerIDs :
       /\ viewers[v].readWS = "return"
       /\ viewers[v].Ctx \in NetFailures
       /\ viewers[v].Conn.recvN = 0
       /\ viewers[v].In = <<>>
       /\ \A s \in StreamerPtrs : streamers[s].Conn.recvN = 0

\* ------------------------------------------------------------------- C26
\* Viewer v's readWS is in `v.Streamer.In <- message` and handleIn of its
\* streamer has returned.
PushStuck(v) ==
    /\ viewers[v].readWS = "push"
    /\ streamers[viewers[v].Streamer].handleIn.pc = "return"

\* C26. A viewer's readWS that is in the push when handleIn of its streamer
\* has returned stays there with its message, whatever happens next: the
\* viewer's deadline, a cancel of its scope, its cleanup.
C26_PushBlocksForEver ==
    [][\A v \in ViewerIDs :
          PushStuck(v)
          => /\ PushStuck(v)'
             /\ viewers'[v].In = viewers[v].In
             /\ viewers'[v].Streamer = viewers[v].Streamer]_vars

\* The viewer is still in the push after its deadline has expired and its
\* cleanup has run.
C26_Witness ==
    \E v \in ViewerIDs :
       /\ PushStuck(v)
       /\ viewers[v].In # <<>>
       /\ viewers[v].Ctx = errClientSignalTimeout
       /\ viewers[v].afterFunc = "done"

\* ------------------------------------------------------------------- C27
\* C27. The streamer's readWS does not return on an error.  A step that
\* cancels the streamer's scope without moving handleIn is a failed read,
\* and it leaves the zero StreamerMessage in the push; so does every later
\* failed read, with the cause and the connection unchanged.  Whenever the
\* push has been received and the read would fail, readWS can read again.
\* Once handleOut has returned, a message in the push stays there.
C27_StreamerReadNeverReturns ==
    /\ [][\A s \in StreamerPtrs :
            /\ (/\ streamers[s].Ctx = NotDone
                /\ streamers'[s].Ctx # NotDone
                /\ streamers'[s].handleIn = streamers[s].handleIn)
               => /\ streamers[s].Out = <<>>
                  /\ streamers'[s].Out = <<ZeroStreamerMessage>>
                  /\ streamers'[s].Ctx \in OpErrors(streamers[s].Ctx, streamers[s].Conn)
            /\ (/\ streamers[s].Out = <<>>
                /\ streamers'[s].Out # <<>>
                /\ OpErrors(streamers[s].Ctx, streamers[s].Conn) # {})
               => /\ streamers'[s].Out = <<ZeroStreamerMessage>>
                  /\ streamers'[s].Conn = streamers[s].Conn
                  /\ streamers[s].Ctx # NotDone
                       => streamers'[s].Ctx = streamers[s].Ctx
            /\ (streamers[s].handleOut.pc = "return" /\ streamers[s].Out # <<>>)
               => streamers'[s].Out = streamers[s].Out]_vars
    /\ [](\A s \in StreamerPtrs :
            (/\ streamers[s].state = "running"
             /\ streamers[s].Out = <<>>
             /\ OpErrors(streamers[s].Ctx, streamers[s].Conn) # {})
            => ENABLED StreamerReadWS(s))

\* Streamer s was cancelled by its first read, which failed (it has read no
\* frame, and no viewer has, so handleIn has written nothing); handleOut has
\* received the zero message that followed and dropped it, and readWS is
\* back at the read, which fails again.
C27_Witness ==
    \E s \in StreamerPtrs :
       /\ streamers[s].Ctx \in NetFailures
       /\ streamers[s].Conn.recvN = 0
       /\ \A v \in ViewerIDs : viewers[v].Conn.recvN = 0
       /\ streamers[s].handleOut.pc = "select"
       /\ streamers[s].Out = <<>>
       /\ ENABLED StreamerReadWS(s)

\* ------------------------------------------------------------------- C28
\* The step is a write of handleIn of streamer s that fails.
HandleInWriteFailsStep(s) ==
    /\ streamers[s].handleIn.pc = "write"
    /\ streamers'[s].handleIn.pc # "write"
    /\ OpErrors(streamers[s].Ctx, streamers[s].Conn) # {}

\* C28. A write of handleIn that fails cancels the streamer's scope with the
\* error of the write (a scope that is already done keeps its cause), puts
\* nothing on the connection, and changes no viewer: the scope of the viewer
\* that sent the message stays as it is.
C28_InboundFailureCancelsStreamerOnly ==
    [][\A s \in StreamerPtrs :
          HandleInWriteFailsStep(s)
          => /\ streamers'[s].Ctx \in
                   IF streamers[s].Ctx = NotDone
                     THEN OpErrors(streamers[s].Ctx, streamers[s].Conn)
                     ELSE {streamers[s].Ctx}
             /\ streamers'[s].Conn = streamers[s].Conn
             /\ \A v \in ViewerIDs : viewers'[v].Ctx = viewers[v].Ctx
             /\ viewers' = viewers
             /\ \A t \in StreamerPtrs \ {s} : streamers'[t] = streamers[t]]_vars

\* handleIn of streamer s has taken the message of viewer v and its write
\* has failed: the message is not on the connection, the scope of s is done
\* with a transport error, and the scope of v is not done.
C28_Witness ==
    \E s \in StreamerPtrs : \E v \in ViewerIDs :
       /\ streamers[s].Ctx \in NetFailures
       /\ streamers[s].handleIn.pc = "select"
       /\ streamers[s].Conn.sent = <<CodeMessage(streamers[s].Code)>>
       /\ viewers[v].Streamer = s
       /\ viewers[v].Conn.recvN = 1
       /\ viewers[v].readWS = "read"
       /\ viewers[v].Ctx = NotDone
       /\ \A w \in ViewerIDs \ {v} : viewers[w].Conn.recvN = 0

\* ------------------------------------------------------------------- C29
\* C29. The deadline cancels a scope that is not done with
\* errClientSignalTimeout; that cause then stays, whatever v.Cancel(err)
\* follows; and the cleanup of a scope with that cause logs
\* "Viewer WS timed out" at level info, and nothing else.
C29_TimeoutIsInformational ==
    [][\A v \in ViewerIDs :
          /\ viewers[v].Ctx = errClientSignalTimeout
             => viewers'[v].Ctx = errClientSignalTimeout
          /\ (viewers[v].Ctx = errClientSignalTimeout /\ ViewerAfterFuncStep(v))
             => viewers'[v].log = Append(viewers[v].log, "info: Viewer WS timed out")
          /\ (viewers[v].Ctx = errClientSignalTimeout /\ viewers[v].afterFunc = "done")
             => /\ viewers[v].log = <<"info: Viewer WS timed out">>
                /\ viewers'[v].log = viewers[v].log]_vars

\* The deadline of viewer v expired first; afterwards its peer's connection
\* was found closed by readWS, whose read failed and whose v.Cancel(err)
\* changed nothing; the cleanup has logged the timeout.
C29_Witness ==
    \E v \in ViewerIDs :
       /\ viewers[v].Ctx = errClientSignalTimeout
       /\ viewers[v].readWS = "return"
       /\ viewers[v].afterFunc = "done"
       /\ viewers[v].log = <<"info: Viewer WS timed out">>

\* ------------------------------------------------------------------- C30
\* C30. The Streamer of a viewer is set by the lookup to the session that
\* the registry holds under the requested code, and no later step changes
\* it: not the cleanup of that streamer, not the insert of another streamer
\* under the same code.
C30_StreamerReferenceFixed ==
    [][\A v \in ViewerIDs :
          /\ (viewers[v].state = "none" /\ viewers'[v].state = "found")
             => /\ viewers'[v].code \in DOMAIN SR
                /\ viewers'[v].Streamer = SR[viewers'[v].code]
          /\ viewers[v].state \notin {"none"}
             => viewers'[v].Streamer = viewers[v].Streamer]_vars

\* The viewer still refers to streamer 1, which has been torn down, while
\* its code is registered again, for streamer 2.
C30_Witness ==
    \E v \in ViewerIDs :
       /\ viewers[v].state = "running"
       /\ viewers[v].Streamer = 1
       /\ streamers[1].afterFunc = "done"
       /\ viewers[v].code \in DOMAIN SR
       /\ SR[viewers[v].code] = 2

\* ------------------------------------------------------------------- C31
\* C31. handleOut of streamer s writes only to viewers whose Streamer is s,
\* and cancels only those: the viewer it is about to write to (and to cancel,
\* should the write fail) refers to s, and every payload on a viewer's
\* connection was read from the connection of the streamer it refers to.
C31_CrossSessionIsolation ==
    \A s \in StreamerPtrs : \A v \in ViewerIDs :
       /\ (streamers[s].handleOut.pc = "write" /\ streamers[s].handleOut.viewer = v)
          => viewers[v].Streamer = s
       /\ \A i \in DOMAIN viewers[v].Conn.sent :
             FrameOrigin(viewers[v].Conn.sent[i]) = <<"S", s>>
             => viewers[v].Streamer = s

\* ------------------------------------------------------------------- C32
\* The code message is on streamer s's connection: the peer knows the code.
CodeKnown(s) ==
    /\ streamers[s].state # "none"
    /\ streamers[s].Conn.sent # <<>>
    /\ streamers[s].Conn.sent[1] = CodeMessage(streamers[s].Code)

\* C32. From the write of the code message until the streamer's scope is
\* cancelled, the code leads to the streamer in SR, so that a lookup of the
\* code (lines 152-154) finds it and no viewer is closed with NO_STREAMER.
C32_CodeUsableOnceKnown ==
    \A s \in StreamerPtrs :
       (CodeKnown(s) /\ streamers[s].Ctx = NotDone) => RegisteredStreamer(s)

\* ------------------------------------------------------------------- C33
\* The step is the cleanup of streamer s (StreamerAfterFunc(s)).
StreamerAfterFuncStep(s) ==
    /\ streamers[s].afterFunc = "armed"
    /\ streamers'[s].afterFunc = "done"

\* C33. The cleanup of streamer s leaves every entry of SR that leads to
\* another session as it is.
C33_CleanupRemovesOwnEntryOnly ==
    [][\A s \in StreamerPtrs :
          StreamerAfterFuncStep(s)
          => \A code \in DOMAIN SR :
                SR[code] # s
                => (code \in DOMAIN SR' /\ SR'[code] = SR[code])]_vars

\* ------------------------------------------------------------------- C34
\* C34. When a viewer session is inserted into VR (line 200) the scope of the
\* streamer it refers to is not done, and a lookup never returns a streamer
\* whose scope is done: the viewer is closed with NO_STREAMER instead.
C34_NoAttachToDeadStreamer ==
    [][\A v \in ViewerIDs :
          /\ (viewers[v].state = "scoped" /\ viewers'[v].state = "running")
             => streamers[viewers[v].Streamer].Ctx = NotDone
          /\ (viewers[v].state = "none" /\ viewers'[v].state = "found")
             => streamers[viewers'[v].Streamer].Ctx = NotDone]_vars

\* ------------------------------------------------------------------- C35
\* The places of all payloads written to viewers' connections, and of all
\* messages written to streamers' connections.
ViewerWrites == {<<v, i>> : v \in ViewerIDs, i \in 1..MaxMsgs}
StreamerWrites == {<<s, i>> : s \in StreamerPtrs, i \in 1..(MaxMsgs + 1)}
WrittenToViewer(p) == p[2] \in DOMAIN viewers[p[1]].Conn.sent
WrittenToStreamer(p) == p[2] \in DOMAIN streamers[p[1]].Conn.sent

C36_OnlyOwnTasksCancelStreamer ==
    [][\A s \in StreamerPtrs :
          (streamers[s].Ctx = NotDone /\ streamers'[s].Ctx # NotDone)
          => /\ \/ /\ streamers[s].Out = <<>>
                   /\ streamers'[s].Out = <<ZeroStreamerMessage>>
                   /\ streamers'[s].handleIn = streamers[s].handleIn
                \/ /\ HandleInWriteFailsStep(s)
                   /\ streamers'[s].Out = streamers[s].Out
             /\ streamers'[s].Ctx \in OpErrors(streamers[s].Ctx, streamers[s].Conn)
             /\ streamers'[s].handleOut = streamers[s].handleOut
             /\ streamers'[s].afterFunc = streamers[s].afterFunc
             /\ streamers'[s].state = streamers[s].state
             /\ viewers' = viewers
             /\ \A t \in StreamerPtrs \ {s} : streamers'[t] = streamers[t]
             /\ SR' = SR /\ VR' = VR]_vars

\* Streamer 1 has been cancelled by its own failed read while streamer 2,
\* with a viewer attached whose scope has been cancelled and cleaned up, is
\* live.
C36_Witness ==
    /\ streamers[1].Ctx \in NetFailures
    /\ streamers[1].Out = <<ZeroStreamerMessage>>
    /\ streamers[2].state = "running"
    /\ streamers[2].Ctx = NotDone
    /\ \E v \in ViewerIDs :
          /\ viewers[v].Streamer = 2
          /\ viewers[v].Ctx # NotDone
          /\ viewers[v].afterFunc = "done"

\* ------------------------------------------------------------------- C37
HoldsLockOf(t, r) == Mu[r].writer = t \/ t \in Mu[r].readers

\* Goroutine t is at a Lock or an RLock.
AtLock(t) ==
    /\ Running(t) /\ Started(t)
    /\ NextOp(t).op \in {"Lock", "RLock"}

\* C37. No goroutine holds the mutexes of SR and of VR at once; a goroutine
\* that holds a mutex does not wait for anything another goroutine has to
\* do (no Lock, no RLock, no channel or socket operation) before it
\* unlocks; as long as some goroutine has a step left, some goroutine can
\* take one; a cleanup at its Lock gets the mutex; and every goroutine gets
\* through all its locked sections to its end, with every mutex released.
C37_NoLockDeadlock ==
    /\ [](\A t \in TaskIDs : ~(HoldsLockOf(t, "SR") /\ HoldsLockOf(t, "VR")))
    /\ [](\A t \in TaskIDs :
            (Running(t) /\ HoldsLock(t))
            => NextOp(t).op \notin {"Lock", "RLock", "Send", "Recv",
                                    "Accept", "Read", "Write", "Close"})
    /\ []((\E t \in TaskIDs : Running(t) /\ Started(t)) => ENABLED LockNext)
    /\ AtLock("StreamerAfterFunc") ~> HoldsLockOf("StreamerAfterFunc", "SR")
    /\ AtLock("ViewerAfterFunc") ~> HoldsLockOf("ViewerAfterFunc", "VR")
    /\ <>(\A t \in TaskIDs : ~Running(t) /\ ~HoldsLock(t))

\* The streamer's cleanup waits at line 99 for the mutex of SR, which the
\* streamer's handler holds, while the viewer's handler holds the mutex of
\* VR and handleOut waits at line 223 for it.
C37_Witness ==
    /\ AtLock("StreamerAfterFunc")
    /\ Mu["SR"].writer = "HandleStreamerWS"
    /\ Mu["VR"].writer = "HandleViewerWS"
    /\ AtLock("handleOut")

\* ------------------------------------------------------------------- C38
\* The payloads of streamer s on the connection of viewer v.
PayloadsOf(s, v) ==
    SelectSeq(viewers[v].Conn.sent, LAMBDA f : FrameOrigin(f) = <<"S", s>>)

\* C38. s.Out and s.In hold no message: at most one message is in a push on
\* s.Out, handleOut holds a message only while it writes it, handleIn holds
\* at most one.  While handleOut of streamer s stays in its write, no viewer
\* gets a payload of s and a message in readWS's push stays there, so that
\* readWS reads nothing more.
C38_Backpressure ==
    /\ [](\A s \in StreamerPtrs :
            /\ Len(streamers[s].Out) <= 1
            /\ Len(streamers[s].handleIn.in) <= 1
            /\ (streamers[s].handleOut.pc # "write")
                 => streamers[s].handleOut.data = <<>>
            /\ (streamers[s].handleIn.pc # "write")
                 => streamers[s].handleIn.in = <<>>)
    /\ [][\A s \in StreamerPtrs :
            (streamers[s].handleOut.pc = "write" /\ streamers'[s].handleOut.pc = "write")
            => /\ streamers'[s].handleOut = streamers[s].handleOut
               /\ \A v \in ViewerIDs : PayloadsOf(s, v)' = PayloadsOf(s, v)
               /\ streamers[s].Out # <<>>
                    => /\ streamers'[s].Out = streamers[s].Out
                       /\ streamers'[s].Conn.recvN = streamers[s].Conn.recvN]_vars

\* handleOut of streamer s is in its write to viewer v while readWS is in the
\* push of the next message, for another viewer, which has been sent nothing.
C38_Witness ==
    \E s \in StreamerPtrs : \E v, w \in ViewerIDs :
       /\ v # w
       /\ streamers[s].handleOut.pc = "write"
       /\ streamers[s].handleOut.viewer = v
       /\ streamers[s].Out # <<>>
       /\ streamers[s].Out[1].To = uuidString(w)
       /\ Live(w)
       /\ viewers[w].Conn.sent = <<>>
       /\ streamers[s].Conn.recvN = 2

====
